---- MODULE Spec2Model ----
(***************************************************************************)
(* Model of the Core Audio HAL driver bridge                               *)
(* (src/src-hal/driver_bundle/hal_driver_bridge.c).                        *)
(*                                                                         *)
(* The bridge is a reference-counted singleton (gDriver) reached through a *)
(* CFPlugIn factory and a COM-style operation table.  Spec drives the      *)
(* operation table one whole call at a time (a single host thread);        *)
(* SpecConc runs the factory, QueryInterface, AddRef and Release from      *)
(* several host threads, one memory access per step.  SpecClients and      *)
(* SpecIO drive the client registration and the IO operations of an        *)
(* instance and keep the host's record of the clients it has registered    *)
(* and started.                                                            *)
(*                                                                         *)
(* Sizes are those of the LP64 ABI the AudioServerPlugIn API exists for.   *)
(***************************************************************************)
EXTENDS Integers, FiniteSets, Sequences, TLC

\* ------------------------------------------------------------------ bounds

\* AddRef / factory / QueryInterface are not called once the count is MaxRef.
MaxRef == 3
\* Number of heap blocks malloc has to hand out (a freed block is reused).
MaxAlloc == 2
\* DoIOOperation is called with 0..MaxFrames frames.
MaxFrames == 1
\* Host threads of SpecConc.
NumThreads == 2

\* ------------------------------------------------------- program constants

NULL == 0
\* 0xFFFFFFFF.  TLC's integers are 32-bit signed, so a UInt32 is carried as the
\* integer with the same bit pattern (its residue modulo 2^32 nearest zero):
\* + - * on such residues stay congruent modulo 2^32.
UInt32Max == -1
\* LP64 sizes of the Core Audio types the property code measures with sizeof.
SizeofCFStringRef == 8
SizeofFloat64 == 8
SizeofAudioValueRange == 16
SizeofAudioBuffer == 16
SizeofAudioBufferList == 24
SizeofUInt32 == 4
SizeofFloat == 4
\* offsetof(AudioBufferList, mBuffers)
OffsetofBuffers == 8
\* gDriver->inputChannels / outputChannels as set by the factory.
InitialInputChannels == 16
InitialOutputChannels == 16
\* driver->deviceObjectID as assigned by Initialize.
PlaceholderDeviceID == 1

\* UUIDs the factory and QueryInterface compare against, and one foreign UUID.
kAudioServerPlugInTypeUUID == "kAudioServerPlugInTypeUUID"
kAudioServerPlugInDriverInterfaceUUID == "kAudioServerPlugInDriverInterfaceUUID"
IUnknownUUID == "IUnknownUUID"
kAudioHALDriverFactoryUUID == "kAudioHALDriverFactoryUUID"
OtherUUID == "OtherUUID"
UUIDs ==
  {kAudioServerPlugInTypeUUID, kAudioServerPlugInDriverInterfaceUUID,
   IUnknownUUID, OtherUUID}

\* Status codes.
S_OK == "S_OK"
E_NOINTERFACE == "E_NOINTERFACE"
kAudioHardwareNoError == "kAudioHardwareNoError"
kAudioHardwareUnsupportedOperationError == "kAudioHardwareUnsupportedOperationError"
kAudioHardwareBadObjectError == "kAudioHardwareBadObjectError"
NoStatus == "-"

\* Property selectors (four-character codes) and one selector outside the table.
kAudioObjectPropertyName == "lnam"
kAudioObjectPropertyManufacturer == "lmak"
kAudioDevicePropertyDeviceUID == "uid "
kAudioDevicePropertyStreams == "stm#"
kAudioDevicePropertyStreamConfiguration == "slay"
kAudioDevicePropertyNominalSampleRate == "nsrt"
kAudioDevicePropertyAvailableNominalSampleRates == "nsr#"
kAudioObjectPropertyClass == "clas"
SupportedSelectors ==
  {kAudioObjectPropertyName, kAudioObjectPropertyManufacturer,
   kAudioDevicePropertyDeviceUID, kAudioDevicePropertyStreams,
   kAudioDevicePropertyStreamConfiguration,
   kAudioDevicePropertyNominalSampleRate,
   kAudioDevicePropertyAvailableNominalSampleRates}
Selectors == SupportedSelectors \cup {kAudioObjectPropertyClass}

kAudioObjectPropertyScopeGlobal == "glob"
kAudioObjectPropertyScopeInput == "inpt"
kAudioObjectPropertyScopeOutput == "outp"
Scopes ==
  {kAudioObjectPropertyScopeGlobal, kAudioObjectPropertyScopeInput,
   kAudioObjectPropertyScopeOutput}

\* ------------------------------------------------------------ input domains

Addrs == 1..MaxAlloc
Threads == 1..NumThreads
\* Host handles passed to Initialize: null and two distinct hosts.
Hosts == {NULL, 1, 2}
\* Object identifiers passed by the host: the device (PlaceholderDeviceID) and
\* an identifier of no object of this driver.
ObjectIDs == {PlaceholderDeviceID, 7}
\* Buffer capacities (inDataSize) around every size the property code tests.
DataSizes == {0, 4, 8, 24, 48, 264}
\* What the caller's *outDataSize held before the call.
PriorSizes == {999}
\* What the caller's *outInterface held before the call (an address of no block).
PriorInterfaces == {99}
ClientIDs == {1, 2}
\* IO operation identifiers: one input-side and one output-side operation.
kAudioServerPlugInIOOperationReadInput == "read"
kAudioServerPlugInIOOperationWriteMix == "wmix"
OperationIDs ==
  {kAudioServerPlugInIOOperationReadInput, kAudioServerPlugInIOOperationWriteMix}

\* -------------------------------------------------------------------- state

VARIABLES
  gDriver,           \* static AudioHALDriver* gDriver: NULL or a heap address
  heap,              \* the AudioHALDriver blocks malloc has handed out
  factoryInstances,  \* CFPlugIn's instance count for kAudioHALDriverFactoryUUID
  nFree,             \* per block: free() calls on it since malloc returned it
  held,              \* per block: references the host holds (acquired - released)
  initOK,            \* per block: Initialize has returned success on it
  call,              \* the last completed call of the single-threaded host
  io,                \* SpecClients, SpecIO: the host's record of its clients
  pc,                \* SpecConc: per thread, the statement it is about to run
  loc,               \* SpecConc: per thread, the locals of its current call
  undef              \* SpecConc: a step had no defined behaviour

vars ==
  <<gDriver, heap, factoryInstances, nFree, held, initOK, call, io, pc, loc,
    undef>>
driverVars == <<gDriver, heap, factoryInstances, nFree, held, initOK>>
threadVars == <<pc, loc, undef>>

\* A block malloc has not handed out yet.
Unallocated ==
  [st |-> "unalloc", factoryID |-> "-", refCount |-> 0, host |-> NULL,
   deviceObjectID |-> 0, inputChannels |-> 0, outputChannels |-> 0]

\* gDriver->... = ... of the factory: the block right after construction.
NewDriverBad ==
  [st |-> "live", factoryID |-> kAudioHALDriverFactoryUUID, refCount |-> 1,
   host |-> NULL, deviceObjectID |-> PlaceholderDeviceID,
   inputChannels |-> InitialInputChannels,
   outputChannels |-> InitialOutputChannels]
NewDriver ==
  [st |-> "live", factoryID |-> kAudioHALDriverFactoryUUID, refCount |-> 1,
   host |-> NULL, deviceObjectID |-> 0,
   inputChannels |-> InitialInputChannels,
   outputChannels |-> InitialOutputChannels]

\* malloc(sizeof(AudioHALDriver)) over heap h: the lowest block not in use
\* (first fit; a freed block is handed out again, with its stale contents), or
\* NULL when the allocator fails (mallocOK = FALSE) or no block is left.
Malloc(h, mallocOK) ==
  IF mallocOK /\ \E a \in Addrs : h[a].st \in {"unalloc", "freed"}
  THEN CHOOSE a \in Addrs :
         /\ h[a].st \in {"unalloc", "freed"}
         /\ \A b \in Addrs : h[b].st \in {"unalloc", "freed"} => a <= b
  ELSE NULL

\* CFEqual(typeID, kAudioServerPlugInTypeUUID)
FactoryTypeMatchesBad(typeID) == typeID # OtherUUID
FactoryTypeMatches(typeID) == typeID = kAudioServerPlugInTypeUUID

\* CFEqual(requestedUUID, unknownUUID) || CFEqual(requestedUUID, driverUUID)
QueryInterfaceMatchesBad(uuid) == uuid = kAudioServerPlugInDriverInterfaceUUID
QueryInterfaceMatches(uuid) ==
  uuid = IUnknownUUID \/ uuid = kAudioServerPlugInDriverInterfaceUUID

\* driver->refCount++ and driver->refCount-- on a UInt32 (residues, see UInt32Max).
Inc32(x) == x + 1
Dec32(x) == x - 1

\* if (driver->refCount == 0) of Release
ReleaseDestroysBad(rc) == rc <= 1
ReleaseDestroys(rc) == rc = 0

\* The record of a call: the operation, the inDriver it was made on, the
\* status it returned, its other arguments, what it returned or stored through
\* its out-parameters, and the driver state it started from.
NoPre == [gDriver |-> NULL, instances |-> 0, block |-> Unallocated, initOK |-> FALSE]
NoCall ==
  [op |-> "none", driver |-> NULL, status |-> NoStatus, arg |-> <<>>,
   out |-> <<>>, pre |-> NoPre]

\* The driver state a call on block d starts from.
Pre(d) ==
  [gDriver |-> gDriver, instances |-> factoryInstances,
   block |-> IF d = NULL THEN Unallocated ELSE heap[d],
   initOK |-> IF d = NULL THEN FALSE ELSE initOK[d]]

Called(op, d, status, arg, out) ==
  [op |-> op, driver |-> d, status |-> status, arg |-> arg, out |-> out,
   pre |-> Pre(d)]

\* The host's record of what it has asked of the driver, kept when on is set:
\* the (device, client) pairs it has added with AddDeviceClient and not
\* removed, those it has started with StartIO and not stopped, whether the pair
\* of its last AddDeviceClient or RemoveDeviceClient was already added before
\* that call, and whether it has destroyed an instance it had initialised.
NoRecord ==
  [on |-> FALSE, clients |-> {}, started |-> {}, wasClient |-> FALSE,
   torn |-> FALSE]

\* The (device, client) pair call c names.
ClientOf(c) == [objectID |-> c.arg.objectID, clientID |-> c.arg.clientID]

\* The record r after the host has made call c.
Follow(r, c) ==
  IF ~r.on THEN r
  ELSE CASE c.op = "AddDeviceClient" ->
              [r EXCEPT !.clients = @ \cup {ClientOf(c)},
                        !.wasClient = ClientOf(c) \in r.clients]
         [] c.op = "RemoveDeviceClient" ->
              [r EXCEPT !.clients = @ \ {ClientOf(c)},
                        !.wasClient = ClientOf(c) \in r.clients]
         [] c.op = "StartIO" ->
              [r EXCEPT !.started = @ \cup {ClientOf(c)}, !.wasClient = FALSE]
         [] c.op = "StopIO" ->
              [r EXCEPT !.started = @ \ {ClientOf(c)}, !.wasClient = FALSE]
         [] c.op = "Release" /\ c.out.ret = 0 ->
              [r EXCEPT !.clients = {}, !.started = {}, !.wasClient = FALSE,
                        !.torn = @ \/ c.pre.initOK]
         [] OTHER -> [r EXCEPT !.wasClient = FALSE]

\* The locals of a thread that is in no call: the inDriver of the AddRef or
\* Release it runs, the count it loaded, and where AddRef returns to.
NoLocals == [driver |-> NULL, tmp |-> 0, cont |-> "idle"]

Init ==
  /\ gDriver = NULL
  /\ heap = [a \in Addrs |-> Unallocated]
  /\ factoryInstances = 0
  /\ nFree = [a \in Addrs |-> 0]
  /\ held = [a \in Addrs |-> 0]
  /\ initOK = [a \in Addrs |-> FALSE]
  /\ call = NoCall
  /\ io = NoRecord
  /\ pc = [t \in Threads |-> "idle"]
  /\ loc = [t \in Threads |-> NoLocals]
  /\ undef = FALSE

\* The blocks the host holds a reference to: the only values it may pass as
\* inDriver.
Handles == {a \in Addrs : held[a] > 0}

\* ------------------------------------------------ factory and COM interface

\* The factory, had it set only the count of the block malloc returned and
\* left the block's other fields as malloc handed them out.
AudioHALDriverFactoryBad(typeID, mallocOK) ==
  /\ (FactoryTypeMatches(typeID) /\ gDriver # NULL)
       => heap[gDriver].refCount < MaxRef
  /\ IF ~FactoryTypeMatches(typeID)
     THEN /\ UNCHANGED driverVars
          /\ call' = Called("AudioHALDriverFactory", gDriver, NoStatus,
                            [typeID |-> typeID, mallocOK |-> mallocOK],
                            [ret |-> NULL])
     ELSE IF gDriver = NULL
     THEN LET p == Malloc(heap, mallocOK) IN
          /\ gDriver' = p
          /\ IF p # NULL
             THEN /\ heap' = [heap EXCEPT ![p].st = "live", ![p].refCount = 1]
                  /\ factoryInstances' = factoryInstances + 1
                  /\ nFree' = [nFree EXCEPT ![p] = 0]
                  /\ held' = [held EXCEPT ![p] = 1]
                  /\ initOK' = [initOK EXCEPT ![p] = FALSE]
             ELSE UNCHANGED <<heap, factoryInstances, nFree, held, initOK>>
          /\ call' = Called("AudioHALDriverFactory", NULL, NoStatus,
                            [typeID |-> typeID, mallocOK |-> mallocOK],
                            [ret |-> p])
     ELSE /\ heap' = [heap EXCEPT ![gDriver].refCount = Inc32(@)]
          /\ held' = [held EXCEPT ![gDriver] = @ + 1]
          /\ UNCHANGED <<gDriver, factoryInstances, nFree, initOK>>
          /\ call' = Called("AudioHALDriverFactory", gDriver, NoStatus,
                            [typeID |-> typeID, mallocOK |-> mallocOK],
                            [ret |-> gDriver])
  /\ io' = Follow(io, call')
  /\ UNCHANGED threadVars

\* void* AudioHALDriverFactory(allocator, typeID); mallocOK tells whether the
\* allocator can serve the factory's malloc.
AudioHALDriverFactory(typeID, mallocOK) ==
  /\ (FactoryTypeMatches(typeID) /\ gDriver # NULL)
       => heap[gDriver].refCount < MaxRef
  /\ IF ~FactoryTypeMatches(typeID)
     THEN /\ UNCHANGED driverVars
          /\ call' = Called("AudioHALDriverFactory", gDriver, NoStatus,
                            [typeID |-> typeID, mallocOK |-> mallocOK],
                            [ret |-> NULL])
     ELSE IF gDriver = NULL
     THEN LET p == Malloc(heap, mallocOK) IN
          /\ gDriver' = p
          /\ IF p # NULL
             THEN /\ heap' = [heap EXCEPT ![p] = NewDriver]
                  /\ factoryInstances' = factoryInstances + 1
                  /\ nFree' = [nFree EXCEPT ![p] = 0]
                  /\ held' = [held EXCEPT ![p] = 1]
                  /\ initOK' = [initOK EXCEPT ![p] = FALSE]
             ELSE UNCHANGED <<heap, factoryInstances, nFree, held, initOK>>
          /\ call' = Called("AudioHALDriverFactory", NULL, NoStatus,
                            [typeID |-> typeID, mallocOK |-> mallocOK],
                            [ret |-> p])
     ELSE /\ heap' = [heap EXCEPT ![gDriver].refCount = Inc32(@)]
          /\ held' = [held EXCEPT ![gDriver] = @ + 1]
          /\ UNCHANGED <<gDriver, factoryInstances, nFree, initOK>>
          /\ call' = Called("AudioHALDriverFactory", gDriver, NoStatus,
                            [typeID |-> typeID, mallocOK |-> mallocOK],
                            [ret |-> gDriver])
  /\ io' = Follow(io, call')
  /\ UNCHANGED threadVars

\* HRESULT QueryInterface(inDriver, inUUID, outInterface); prior is what the
\* caller's *outInterface held.
QueryInterface(d, uuid, prior) ==
  /\ d \in Handles
  /\ heap[d].refCount < MaxRef
  /\ IF QueryInterfaceMatches(uuid)
     THEN /\ heap' = [heap EXCEPT ![d].refCount = Inc32(@)]
          /\ held' = [held EXCEPT ![d] = @ + 1]
          /\ call' = Called("QueryInterface", d, S_OK,
                            [uuid |-> uuid, prior |-> prior],
                            [outInterface |-> d])
     ELSE /\ UNCHANGED <<heap, held>>
          /\ call' = Called("QueryInterface", d, E_NOINTERFACE,
                            [uuid |-> uuid, prior |-> prior],
                            [outInterface |-> prior])
  /\ io' = Follow(io, call')
  /\ UNCHANGED <<gDriver, factoryInstances, nFree, initOK, threadVars>>

\* ULONG AddRef(inDriver)
AddRef(d) ==
  /\ d \in Handles
  /\ heap[d].refCount < MaxRef
  /\ heap' = [heap EXCEPT ![d].refCount = Inc32(@)]
  /\ held' = [held EXCEPT ![d] = @ + 1]
  /\ call' = Called("AddRef", d, NoStatus, <<>>, [ret |-> heap'[d].refCount])
  /\ io' = Follow(io, call')
  /\ UNCHANGED <<gDriver, factoryInstances, nFree, initOK, threadVars>>

\* ULONG Release(inDriver)
Release(d) ==
  /\ d \in Handles
  /\ held' = [held EXCEPT ![d] = @ - 1]
  /\ LET rc == Dec32(heap[d].refCount) IN
     IF ReleaseDestroys(rc)
     THEN /\ factoryInstances' = factoryInstances - 1
          /\ heap' = [heap EXCEPT ![d].refCount = rc, ![d].st = "freed"]
          /\ nFree' = [nFree EXCEPT ![d] = @ + 1]
          /\ gDriver' = NULL
          /\ call' = Called("Release", d, NoStatus, <<>>, [ret |-> 0])
     ELSE /\ heap' = [heap EXCEPT ![d].refCount = rc]
          /\ UNCHANGED <<factoryInstances, nFree, gDriver>>
          /\ call' = Called("Release", d, NoStatus, <<>>, [ret |-> rc])
  /\ io' = Follow(io, call')
  /\ UNCHANGED <<initOK, threadVars>>

\* ------------------------------------------------------- driver operations

\* OSStatus Initialize(inDriver, inHost)
Initialize(d, inHost) ==
  /\ d \in Handles
  /\ heap' = [heap EXCEPT ![d].host = inHost,
                          ![d].deviceObjectID = PlaceholderDeviceID]
  /\ initOK' = [initOK EXCEPT ![d] = TRUE]
  /\ call' = Called("Initialize", d, kAudioHardwareNoError,
                    [inHost |-> inHost], <<>>)
  /\ io' = Follow(io, call')
  /\ UNCHANGED <<gDriver, factoryInstances, nFree, held, threadVars>>

\* A call on inDriver d that reads and writes nothing of the driver.
Stateless(op, d, status, arg, out) ==
  /\ d \in Handles
  /\ call' = Called(op, d, status, arg, out)
  /\ io' = Follow(io, call')
  /\ UNCHANGED <<driverVars, threadVars>>

\* OSStatus CreateDevice(inDriver, inDescription, inClientInfo, outDeviceObjectID)
CreateDevice(d) ==
  Stateless("CreateDevice", d, kAudioHardwareNoError, <<>>,
            [outDeviceObjectID |-> 0])

\* OSStatus DestroyDevice(inDriver, inDeviceObjectID)
DestroyDevice(d, objectID) ==
  Stateless("DestroyDevice", d, kAudioHardwareNoError,
            [objectID |-> objectID], <<>>)

\* OSStatus AddDeviceClient(inDriver, inDeviceObjectID, inClientInfo)
AddDeviceClient(d, objectID, clientID) ==
  Stateless("AddDeviceClient", d, kAudioHardwareNoError,
            [objectID |-> objectID, clientID |-> clientID], <<>>)

\* RemoveDeviceClient, had it torn the device down with its client.
RemoveDeviceClientBad(d, objectID, clientID) ==
  /\ d \in Handles
  /\ heap' = [heap EXCEPT ![d].deviceObjectID = 0]
  /\ call' = Called("RemoveDeviceClient", d, kAudioHardwareNoError,
                    [objectID |-> objectID, clientID |-> clientID], <<>>)
  /\ io' = Follow(io, call')
  /\ UNCHANGED <<gDriver, factoryInstances, nFree, held, initOK, threadVars>>

\* OSStatus RemoveDeviceClient(inDriver, inDeviceObjectID, inClientInfo)
RemoveDeviceClient(d, objectID, clientID) ==
  Stateless("RemoveDeviceClient", d, kAudioHardwareNoError,
            [objectID |-> objectID, clientID |-> clientID], <<>>)

\* OSStatus PerformDeviceConfigurationChange(inDriver, inDeviceObjectID, ...)
PerformDeviceConfigurationChange(d, objectID) ==
  Stateless("PerformDeviceConfigurationChange", d, kAudioHardwareNoError,
            [objectID |-> objectID], <<>>)

\* OSStatus AbortDeviceConfigurationChange(inDriver, inDeviceObjectID, ...)
AbortDeviceConfigurationChange(d, objectID) ==
  Stateless("AbortDeviceConfigurationChange", d, kAudioHardwareNoError,
            [objectID |-> objectID], <<>>)

\* ----------------------------------------------------- property operations

\* A property address with the object it is asked of.
Address(objectID, selector, scope) ==
  [objectID |-> objectID, selector |-> selector, scope |-> scope]

\* The switch of HasProperty, had it no case for the stream list.
HasPropertyResultBad(selector) ==
  selector \in
    {kAudioObjectPropertyName, kAudioObjectPropertyManufacturer,
     kAudioDevicePropertyDeviceUID, kAudioDevicePropertyStreamConfiguration,
     kAudioDevicePropertyNominalSampleRate,
     kAudioDevicePropertyAvailableNominalSampleRates}

\* The switch of HasProperty.
HasPropertyResult(selector) ==
  IF selector \in
       {kAudioObjectPropertyName, kAudioObjectPropertyManufacturer,
        kAudioDevicePropertyDeviceUID, kAudioDevicePropertyStreams,
        kAudioDevicePropertyStreamConfiguration,
        kAudioDevicePropertyNominalSampleRate,
        kAudioDevicePropertyAvailableNominalSampleRates}
  THEN TRUE
  ELSE FALSE

\* Boolean HasProperty(inDriver, inObjectID, inClientProcessID, inAddress)
HasProperty(d, objectID, selector, scope) ==
  Stateless("HasProperty", d, NoStatus, Address(objectID, selector, scope),
            [ret |-> HasPropertyResult(selector)])

\* OSStatus IsPropertySettable(..., inAddress, outIsSettable)
IsPropertySettable(d, objectID, selector, scope) ==
  Stateless("IsPropertySettable", d, kAudioHardwareNoError,
            Address(objectID, selector, scope), [outIsSettable |-> FALSE])

\* The switch of GetPropertyDataSize: what it stores in *outDataSize.
PropertyDataSize(selector) ==
  CASE selector \in {kAudioObjectPropertyName, kAudioObjectPropertyManufacturer,
                     kAudioDevicePropertyDeviceUID} -> SizeofCFStringRef
    [] selector = kAudioDevicePropertyStreamConfiguration ->
         SizeofAudioBufferList + (15 * SizeofAudioBuffer)
    [] selector = kAudioDevicePropertyNominalSampleRate -> SizeofFloat64
    [] selector = kAudioDevicePropertyAvailableNominalSampleRates ->
         SizeofAudioValueRange * 3
    [] selector = kAudioDevicePropertyStreams -> 0
    [] OTHER -> 0

\* OSStatus GetPropertyDataSize(..., inAddress, ..., outDataSize)
GetPropertyDataSize(d, objectID, selector, scope) ==
  Stateless("GetPropertyDataSize", d, kAudioHardwareNoError,
            Address(objectID, selector, scope),
            [outDataSize |-> PropertyDataSize(selector)])

\* numChannels of the stream-configuration case: by scope, 0 for any other.
NumChannels(blk, scope) ==
  IF scope = kAudioObjectPropertyScopeInput THEN blk.inputChannels
  ELSE IF scope = kAudioObjectPropertyScopeOutput THEN blk.outputChannels
  ELSE 0

\* sizeof(AudioBufferList) + ((numChannels - 1) * sizeof(AudioBuffer)) stored
\* into a UInt32: numChannels - 1 is UInt32 arithmetic (0 - 1 = UInt32Max), the
\* product and sum are size_t, the store keeps the low 32 bits.
StreamConfigurationSize(numChannels) ==
  SizeofAudioBufferList + (Dec32(numChannels) * SizeofAudioBuffer)

\* The bytes of outData the stream-configuration case stores to, as the end of
\* the last store: mNumberBuffers, then mBuffers[0 .. numChannels-1].
StreamConfigurationExtent(numChannels) ==
  IF numChannels = 0 THEN SizeofUInt32
  ELSE OffsetofBuffers + numChannels * SizeofAudioBuffer

\* A case of GetPropertyData that stores nothing: *outDataSize and outData keep
\* what the caller put there.
Untouched(prior) == [outDataSize |-> prior, written |-> 0, value |-> "-"]

\* if (inDataSize >= need) { store value; *outDataSize = need; }
FixedProperty(inDataSize, prior, need, value) ==
  IF inDataSize >= need
  THEN [outDataSize |-> need, written |-> need, value |-> value]
  ELSE Untouched(prior)

\* The switch of GetPropertyData on block blk: *outDataSize afterwards, the
\* extent of outData stored to, and the value stored.
PropertyData(blk, selector, scope, inDataSize, prior) ==
  CASE selector = kAudioObjectPropertyName ->
         FixedProperty(inDataSize, prior, SizeofCFStringRef, "SotF")
    [] selector = kAudioObjectPropertyManufacturer ->
         FixedProperty(inDataSize, prior, SizeofCFStringRef, "Pierre F. Aubert")
    [] selector = kAudioDevicePropertyDeviceUID ->
         FixedProperty(inDataSize, prior, SizeofCFStringRef, "SotF-001")
    [] selector = kAudioDevicePropertyStreamConfiguration ->
         IF inDataSize >= SizeofAudioBufferList
         THEN LET n == NumChannels(blk, scope) IN
              [outDataSize |-> StreamConfigurationSize(n),
               written |-> StreamConfigurationExtent(n),
               value |-> "mono buffers"]
         ELSE Untouched(prior)
    [] selector = kAudioDevicePropertyNominalSampleRate ->
         FixedProperty(inDataSize, prior, SizeofFloat64, "44100")
    [] selector = kAudioDevicePropertyAvailableNominalSampleRates ->
         FixedProperty(inDataSize, prior, SizeofAudioValueRange * 3,
                       "44100-44100,48000-48000,96000-96000")
    [] OTHER -> [outDataSize |-> 0, written |-> 0, value |-> "-"]

\* GetPropertyData, had its stream-configuration case stored numChannels back
\* into the driver.
GetPropertyDataBad(d, objectID, selector, scope, inDataSize, prior) ==
  /\ d \in Handles
  /\ heap' = [heap EXCEPT ![d].inputChannels = NumChannels(heap[d], scope)]
  /\ call' = Called("GetPropertyData", d, kAudioHardwareNoError,
                    [objectID |-> objectID, selector |-> selector,
                     scope |-> scope, inDataSize |-> inDataSize,
                     prior |-> prior],
                    PropertyData(heap[d], selector, scope, inDataSize, prior))
  /\ io' = Follow(io, call')
  /\ UNCHANGED <<gDriver, factoryInstances, nFree, held, initOK, threadVars>>

\* OSStatus GetPropertyData(..., inAddress, ..., inDataSize, outDataSize, outData);
\* prior is what the caller's *outDataSize held.
GetPropertyData(d, objectID, selector, scope, inDataSize, prior) ==
  /\ d \in Handles
  /\ Stateless("GetPropertyData", d, kAudioHardwareNoError,
               [objectID |-> objectID, selector |-> selector, scope |-> scope,
                inDataSize |-> inDataSize, prior |-> prior],
               PropertyData(heap[d], selector, scope, inDataSize, prior))

\* SetPropertyData, had it cleared the input channel count before refusing.
SetPropertyDataBad(d, objectID, selector, scope) ==
  /\ d \in Handles
  /\ heap' = [heap EXCEPT ![d].inputChannels = 0]
  /\ call' = Called("SetPropertyData", d,
                    kAudioHardwareUnsupportedOperationError,
                    Address(objectID, selector, scope), <<>>)
  /\ io' = Follow(io, call')
  /\ UNCHANGED <<gDriver, factoryInstances, nFree, held, initOK, threadVars>>

\* OSStatus SetPropertyData(..., inAddress, ..., inDataSize, inData)
SetPropertyData(d, objectID, selector, scope) ==
  Stateless("SetPropertyData", d, kAudioHardwareUnsupportedOperationError,
            Address(objectID, selector, scope), <<>>)

\* ------------------------------------------------------------ IO operations

\* The device and client an IO call names.
Client(objectID, clientID) == [objectID |-> objectID, clientID |-> clientID]
\* The operation of one IO cycle an IO call names.
Operation(objectID, clientID, opID) ==
  [objectID |-> objectID, clientID |-> clientID, opID |-> opID]

\* OSStatus StartIO(inDriver, inDeviceObjectID, inClientID)
StartIO(d, objectID, clientID) ==
  Stateless("StartIO", d, kAudioHardwareNoError, Client(objectID, clientID), <<>>)

\* OSStatus StopIO(inDriver, inDeviceObjectID, inClientID)
StopIO(d, objectID, clientID) ==
  Stateless("StopIO", d, kAudioHardwareNoError, Client(objectID, clientID), <<>>)

\* OSStatus GetZeroTimeStamp(..., outSampleTime, outHostTime, outSeed)
GetZeroTimeStamp(d, objectID, clientID) ==
  Stateless("GetZeroTimeStamp", d, kAudioHardwareNoError,
            Client(objectID, clientID),
            [outSampleTime |-> 0, outHostTime |-> 0, outSeed |-> 0])

\* *outWillDo = false; *outWillDoInPlace = false; whatever inOperationID is.
WillDoResult(opID) == [outWillDo |-> FALSE, outWillDoInPlace |-> FALSE]

\* OSStatus WillDoIOOperation(..., inOperationID, outWillDo, outWillDoInPlace)
WillDoIOOperation(d, objectID, clientID, opID) ==
  Stateless("WillDoIOOperation", d, kAudioHardwareNoError,
            Operation(objectID, clientID, opID), WillDoResult(opID))

\* OSStatus BeginIOOperation(...)
BeginIOOperation(d, objectID, clientID, opID) ==
  Stateless("BeginIOOperation", d, kAudioHardwareNoError,
            Operation(objectID, clientID, opID), <<>>)

\* bufferSize of DoIOOperation, had the memset not been guarded by
\* ioMainBuffer != NULL.
ClearedBytesBad(blk, frames, mainBuf) ==
  frames * SizeofFloat * blk.outputChannels

\* bufferSize of DoIOOperation: the bytes memset clears from ioMainBuffer
\* (size_t arithmetic), 0 when ioMainBuffer is NULL.
ClearedBytes(blk, frames, mainBuf) ==
  IF mainBuf THEN frames * SizeofFloat * blk.outputChannels ELSE 0

\* OSStatus DoIOOperation(..., inOperationID, inIOBufferFrameSize, ...,
\*                        ioMainBuffer, ioSecondaryBuffer); mainBuf tells whether
\* ioMainBuffer is non-null.
DoIOOperation(d, objectID, clientID, opID, frames, mainBuf) ==
  /\ d \in Handles
  /\ Stateless("DoIOOperation", d, kAudioHardwareNoError,
               [objectID |-> objectID, clientID |-> clientID, opID |-> opID,
                frames |-> frames, mainBuf |-> mainBuf],
               [mainZeroed |-> ClearedBytes(heap[d], frames, mainBuf),
                secondaryTouched |-> FALSE])

\* OSStatus EndIOOperation(...)
EndIOOperation(d, objectID, clientID, opID) ==
  Stateless("EndIOOperation", d, kAudioHardwareNoError,
            Operation(objectID, clientID, opID), <<>>)

\* ------------------------------------------- the single-threaded host (Spec)

Next ==
  \/ \E typeID \in UUIDs, mallocOK \in BOOLEAN :
       AudioHALDriverFactory(typeID, mallocOK)
  \/ \E d \in Addrs, uuid \in UUIDs, prior \in PriorInterfaces :
       QueryInterface(d, uuid, prior)
  \/ \E d \in Addrs : AddRef(d)
  \/ \E d \in Addrs : Release(d)
  \/ \E d \in Addrs, inHost \in Hosts : Initialize(d, inHost)
  \/ \E d \in Addrs : CreateDevice(d)
  \/ \E d \in Addrs, o \in ObjectIDs : DestroyDevice(d, o)
  \/ \E d \in Addrs, o \in ObjectIDs, c \in ClientIDs : AddDeviceClient(d, o, c)
  \/ \E d \in Addrs, o \in ObjectIDs, c \in ClientIDs :
       RemoveDeviceClient(d, o, c)
  \/ \E d \in Addrs, o \in ObjectIDs : PerformDeviceConfigurationChange(d, o)
  \/ \E d \in Addrs, o \in ObjectIDs : AbortDeviceConfigurationChange(d, o)
  \/ \E d \in Addrs, o \in ObjectIDs, sel \in Selectors, sc \in Scopes :
       HasProperty(d, o, sel, sc)
  \/ \E d \in Addrs, o \in ObjectIDs, sel \in Selectors, sc \in Scopes :
       IsPropertySettable(d, o, sel, sc)
  \/ \E d \in Addrs, o \in ObjectIDs, sel \in Selectors, sc \in Scopes :
       GetPropertyDataSize(d, o, sel, sc)
  \/ \E d \in Addrs, o \in ObjectIDs, sel \in Selectors, sc \in Scopes,
        n \in DataSizes, prior \in PriorSizes :
       GetPropertyData(d, o, sel, sc, n, prior)
  \/ \E d \in Addrs, o \in ObjectIDs, sel \in Selectors, sc \in Scopes :
       SetPropertyData(d, o, sel, sc)
  \/ \E d \in Addrs, o \in ObjectIDs, c \in ClientIDs : StartIO(d, o, c)
  \/ \E d \in Addrs, o \in ObjectIDs, c \in ClientIDs : StopIO(d, o, c)
  \/ \E d \in Addrs, o \in ObjectIDs, c \in ClientIDs : GetZeroTimeStamp(d, o, c)
  \/ \E d \in Addrs, o \in ObjectIDs, c \in ClientIDs, k \in OperationIDs :
       WillDoIOOperation(d, o, c, k)
  \/ \E d \in Addrs, o \in ObjectIDs, c \in ClientIDs, k \in OperationIDs :
       BeginIOOperation(d, o, c, k)
  \/ \E d \in Addrs, o \in ObjectIDs, c \in ClientIDs, k \in OperationIDs,
        f \in 0..MaxFrames, mainBuf \in BOOLEAN :
       DoIOOperation(d, o, c, k, f, mainBuf)
  \/ \E d \in Addrs, o \in ObjectIDs, c \in ClientIDs, k \in OperationIDs :
       EndIOOperation(d, o, c, k)

Spec == Init /\ [][Next]_vars

\* ------------------------------------------ several host threads (SpecConc)
\*
\* The code takes no lock and uses plain loads and stores, so a call of one
\* thread interleaves with the others at every access to gDriver and to the
\* block.  refCount++ and refCount-- are a load and a store, or (AddRefAtomic,
\* ReleaseAtomic) one uninterrupted read-modify-write: a data race leaves the
\* build free to produce either.  The factory is called with the plug-in type
\* ID and QueryInterface with a matching interface ID; the other branches touch
\* no shared state.  A step that dereferences a null gDriver, reads or writes a
\* block that is not in use, or hands the host such a block, sets undef: the
\* process has no defined behaviour from there on and the model follows it no
\* further.

Running == ~undef

\* Block d is not a driver the program may use: it is not allocated ("unalloc",
\* "freed"), or allocated and not yet initialised ("raw").
Dead(d) == heap[d].st # "live"

\* The host starts no call on a block whose count has left 0 .. MaxRef - 1, or
\* of which it holds MaxRef references.
Bounded(d) == heap[d].refCount \in 0..(MaxRef - 1) /\ held[d] < MaxRef

\* Threads inside an AddRef or QueryInterface the host made on block d: each
\* uses a reference of the host for as long as it runs.
Borrowers(d) ==
  {t \in Threads : /\ pc[t] \in {"a_load", "a_store", "q_ret"}
                   /\ loc[t].cont # "f_ret"
                   /\ loc[t].driver = d}

Goto(t, label) == pc' = [pc EXCEPT ![t] = label]

\* The host calls AudioHALDriverFactory(allocator, kAudioServerPlugInTypeUUID).
CallFactory(t) ==
  /\ Running /\ pc[t] = "idle"
  /\ \A a \in Addrs : Bounded(a)
  /\ Goto(t, "f_check")
  /\ UNCHANGED <<driverVars, call, io, loc, undef>>

\* if (gDriver == NULL)
FactoryCheck(t) ==
  /\ Running /\ pc[t] = "f_check"
  /\ Goto(t, IF gDriver = NULL THEN "f_malloc" ELSE "f_addref")
  /\ UNCHANGED <<driverVars, call, io, loc, undef>>

\* gDriver = malloc(sizeof(AudioHALDriver)); if (gDriver != NULL)
FactoryMalloc(t, mallocOK) ==
  /\ Running /\ pc[t] = "f_malloc"
  /\ LET p == Malloc(heap, mallocOK) IN
     /\ gDriver' = p
     /\ IF p # NULL
        THEN /\ heap' = [heap EXCEPT ![p].st = "raw"]
             /\ nFree' = [nFree EXCEPT ![p] = 0]
             /\ initOK' = [initOK EXCEPT ![p] = FALSE]
             /\ Goto(t, "f_init")
        ELSE /\ UNCHANGED <<heap, nFree, initOK>>
             /\ Goto(t, "f_ret")
  /\ UNCHANGED <<factoryInstances, held, call, io, loc, undef>>

\* gDriver->interface = ...; ... gDriver->outputChannels = 16; every store
\* goes through gDriver.
FactoryInit(t) ==
  /\ Running /\ pc[t] = "f_init"
  /\ IF gDriver = NULL \/ heap[gDriver].st \notin {"raw", "live"}
     THEN /\ undef' = TRUE
          /\ UNCHANGED <<heap, factoryInstances>>
     ELSE /\ heap' = [heap EXCEPT ![gDriver] = NewDriver]
          /\ factoryInstances' = factoryInstances + 1
          /\ UNCHANGED undef
  /\ Goto(t, "f_ret")
  /\ UNCHANGED <<gDriver, nFree, held, initOK, call, io, loc>>

\* AddRef(gDriver): the argument is read from gDriver again.
FactoryAddRef(t) ==
  /\ Running /\ pc[t] = "f_addref"
  /\ loc' = [loc EXCEPT ![t].driver = gDriver, ![t].cont = "f_ret"]
  /\ Goto(t, "a_load")
  /\ UNCHANGED <<driverVars, call, io, undef>>

\* return gDriver;
FactoryReturn(t) ==
  /\ Running /\ pc[t] = "f_ret"
  /\ loc' = [loc EXCEPT ![t] = NoLocals]
  /\ held' = IF gDriver = NULL THEN held ELSE [held EXCEPT ![gDriver] = @ + 1]
  /\ undef' = (gDriver # NULL /\ Dead(gDriver))
  /\ Goto(t, "idle")
  /\ UNCHANGED <<gDriver, heap, factoryInstances, nFree, initOK, call, io>>

\* The host calls AddRef(d) on a block it holds a reference to.
CallAddRef(t, d) ==
  /\ Running /\ pc[t] = "idle"
  /\ d \in Handles
  /\ Bounded(d)
  /\ loc' = [loc EXCEPT ![t].driver = d, ![t].cont = "idle"]
  /\ Goto(t, "a_load")
  /\ UNCHANGED <<driverVars, call, io, undef>>

\* The host calls QueryInterface(d, a matching interface ID, outInterface).
CallQueryInterface(t, d) ==
  /\ Running /\ pc[t] = "idle"
  /\ d \in Handles
  /\ Bounded(d)
  /\ loc' = [loc EXCEPT ![t].driver = d, ![t].cont = "q_ret"]
  /\ Goto(t, "a_load")
  /\ UNCHANGED <<driverVars, call, io, undef>>

\* driver->refCount++, the load.
AddRefLoad(t) ==
  /\ Running /\ pc[t] = "a_load"
  /\ IF loc[t].driver = NULL \/ Dead(loc[t].driver)
     THEN undef' = TRUE /\ UNCHANGED loc
     ELSE /\ loc' = [loc EXCEPT ![t].tmp = heap[loc[t].driver].refCount]
          /\ UNCHANGED undef
  /\ Goto(t, "a_store")
  /\ UNCHANGED <<driverVars, call, io>>

\* Where AddRef goes once the count is stored: back into the factory or
\* QueryInterface, or, called by the host, back to the host with one more
\* reference.
AfterAddRef(t) ==
  /\ Goto(t, loc[t].cont)
  /\ loc' = [loc EXCEPT ![t] = IF loc[t].cont = "idle" THEN NoLocals
                                ELSE [@ EXCEPT !.tmp = 0]]
  /\ held' = IF loc[t].cont = "idle"
             THEN [held EXCEPT ![loc[t].driver] = @ + 1]
             ELSE held

\* driver->refCount++, the store; return driver->refCount;
AddRefStore(t) ==
  /\ Running /\ pc[t] = "a_store"
  /\ heap' = [heap EXCEPT ![loc[t].driver].refCount = Inc32(loc[t].tmp)]
  /\ undef' = Dead(loc[t].driver)
  /\ AfterAddRef(t)
  /\ UNCHANGED <<gDriver, factoryInstances, nFree, initOK, call, io>>

\* driver->refCount++ as one uninterrupted read-modify-write.
AddRefAtomic(t) ==
  /\ Running /\ pc[t] = "a_load"
  /\ loc[t].driver # NULL
  /\ heap' = [heap EXCEPT ![loc[t].driver].refCount = Inc32(@)]
  /\ undef' = Dead(loc[t].driver)
  /\ AfterAddRef(t)
  /\ UNCHANGED <<gDriver, factoryInstances, nFree, initOK, call, io>>

\* *outInterface = driver; return S_OK;
QueryInterfaceReturn(t) ==
  /\ Running /\ pc[t] = "q_ret"
  /\ held' = [held EXCEPT ![loc[t].driver] = @ + 1]
  /\ undef' = Dead(loc[t].driver)
  /\ loc' = [loc EXCEPT ![t] = NoLocals]
  /\ Goto(t, "idle")
  /\ UNCHANGED <<gDriver, heap, factoryInstances, nFree, initOK, call, io>>

\* The host calls Release(d), giving up one of its references; it keeps one
\* for every call it still has running on d.
CallRelease(t, d) ==
  /\ Running /\ pc[t] = "idle"
  /\ d \in Handles
  /\ heap[d].refCount >= 0
  /\ Borrowers(d) # {} => held[d] >= 2
  /\ held' = [held EXCEPT ![d] = @ - 1]
  /\ loc' = [loc EXCEPT ![t].driver = d, ![t].cont = "idle"]
  /\ Goto(t, "r_load")
  /\ UNCHANGED <<gDriver, heap, factoryInstances, nFree, initOK, call, io, undef>>

\* driver->refCount--, the load.
ReleaseLoad(t) ==
  /\ Running /\ pc[t] = "r_load"
  /\ loc' = [loc EXCEPT ![t].tmp = heap[loc[t].driver].refCount]
  /\ undef' = Dead(loc[t].driver)
  /\ Goto(t, "r_store")
  /\ UNCHANGED <<driverVars, call, io>>

\* driver->refCount--, the store.
ReleaseStore(t) ==
  /\ Running /\ pc[t] = "r_store"
  /\ heap' = [heap EXCEPT ![loc[t].driver].refCount = Dec32(loc[t].tmp)]
  /\ undef' = Dead(loc[t].driver)
  /\ loc' = [loc EXCEPT ![t].tmp = 0]
  /\ Goto(t, "r_test")
  /\ UNCHANGED <<gDriver, factoryInstances, nFree, held, initOK, call, io>>

\* driver->refCount-- as one uninterrupted read-modify-write.
ReleaseAtomic(t) ==
  /\ Running /\ pc[t] = "r_load"
  /\ heap' = [heap EXCEPT ![loc[t].driver].refCount = Dec32(@)]
  /\ undef' = Dead(loc[t].driver)
  /\ Goto(t, "r_test")
  /\ UNCHANGED <<gDriver, factoryInstances, nFree, held, initOK, call, io, loc>>

\* if (driver->refCount == 0) ... else return driver->refCount;
ReleaseTest(t) ==
  /\ Running /\ pc[t] = "r_test"
  /\ IF ReleaseDestroys(heap[loc[t].driver].refCount)
     THEN /\ Goto(t, "r_free")
          /\ UNCHANGED loc
     ELSE /\ Goto(t, "idle")
          /\ loc' = [loc EXCEPT ![t] = NoLocals]
  /\ undef' = Dead(loc[t].driver)
  /\ UNCHANGED <<driverVars, call, io>>

\* CFPlugInRemoveInstanceForFactory(driver->factoryID); free(driver);
ReleaseFree(t) ==
  /\ Running /\ pc[t] = "r_free"
  /\ factoryInstances' = factoryInstances - 1
  /\ heap' = [heap EXCEPT ![loc[t].driver].st = "freed"]
  /\ nFree' = [nFree EXCEPT ![loc[t].driver] = @ + 1]
  /\ undef' = Dead(loc[t].driver)
  /\ Goto(t, "r_clear")
  /\ UNCHANGED <<gDriver, held, initOK, call, io, loc>>

\* gDriver = NULL; return 0;
ReleaseClear(t) ==
  /\ Running /\ pc[t] = "r_clear"
  /\ gDriver' = NULL
  /\ loc' = [loc EXCEPT ![t] = NoLocals]
  /\ Goto(t, "idle")
  /\ UNCHANGED <<heap, factoryInstances, nFree, held, initOK, call, io, undef>>

\* The steps of AddRef and Release.
RefCountSteps ==
  \/ \E t \in Threads, d \in Addrs : CallAddRef(t, d)
  \/ \E t \in Threads : AddRefLoad(t)
  \/ \E t \in Threads : AddRefStore(t)
  \/ \E t \in Threads : AddRefAtomic(t)
  \/ \E t \in Threads, d \in Addrs : CallRelease(t, d)
  \/ \E t \in Threads : ReleaseLoad(t)
  \/ \E t \in Threads : ReleaseStore(t)
  \/ \E t \in Threads : ReleaseAtomic(t)
  \/ \E t \in Threads : ReleaseTest(t)
  \/ \E t \in Threads : ReleaseFree(t)
  \/ \E t \in Threads : ReleaseClear(t)

NextConc ==
  \/ \E t \in Threads : CallFactory(t)
  \/ \E t \in Threads : FactoryCheck(t)
  \/ \E t \in Threads, mallocOK \in BOOLEAN : FactoryMalloc(t, mallocOK)
  \/ \E t \in Threads : FactoryInit(t)
  \/ \E t \in Threads : FactoryAddRef(t)
  \/ \E t \in Threads : FactoryReturn(t)
  \/ \E t \in Threads, d \in Addrs : CallQueryInterface(t, d)
  \/ \E t \in Threads : QueryInterfaceReturn(t)
  \/ RefCountSteps

SpecConc == Init /\ [][NextConc]_vars

\* The threads make AddRef and Release calls only, on the singleton as the
\* factory has just created it: reference count 1, one reference held.
InitRef ==
  /\ gDriver = 1
  /\ heap = [a \in Addrs |-> IF a = 1 THEN NewDriver ELSE Unallocated]
  /\ factoryInstances = 1
  /\ nFree = [a \in Addrs |-> 0]
  /\ held = [a \in Addrs |-> IF a = 1 THEN 1 ELSE 0]
  /\ initOK = [a \in Addrs |-> FALSE]
  /\ call = [op |-> "AudioHALDriverFactory", driver |-> NULL, status |-> NoStatus,
             arg |-> [typeID |-> kAudioServerPlugInTypeUUID, mallocOK |-> TRUE],
             out |-> [ret |-> 1], pre |-> NoPre]
  /\ io = NoRecord
  /\ pc = [t \in Threads |-> "idle"]
  /\ loc = [t \in Threads |-> NoLocals]
  /\ undef = FALSE

NextRef == RefCountSteps

SpecRef == InitRef /\ [][NextRef]_vars

\* ------------------------- clients and IO of an instance (SpecClients, SpecIO)
\*
\* The single-threaded host creates, initialises and destroys the instance and
\* keeps its record (io.on) of the clients it registers and removes, taking
\* further references meanwhile (SpecClients), or of the IO it starts, stops
\* and runs (SpecIO).

InitIO ==
  /\ gDriver = NULL
  /\ heap = [a \in Addrs |-> Unallocated]
  /\ factoryInstances = 0
  /\ nFree = [a \in Addrs |-> 0]
  /\ held = [a \in Addrs |-> 0]
  /\ initOK = [a \in Addrs |-> FALSE]
  /\ call = NoCall
  /\ io = [NoRecord EXCEPT !.on = TRUE]
  /\ pc = [t \in Threads |-> "idle"]
  /\ loc = [t \in Threads |-> NoLocals]
  /\ undef = FALSE

NextClients ==
  \/ \E mallocOK \in BOOLEAN :
       AudioHALDriverFactory(kAudioServerPlugInTypeUUID, mallocOK)
  \/ \E d \in Addrs : AddRef(d)
  \/ \E d \in Addrs : Release(d)
  \/ \E d \in Addrs, inHost \in Hosts : Initialize(d, inHost)
  \/ \E d \in Addrs, o \in ObjectIDs, c \in ClientIDs : AddDeviceClient(d, o, c)
  \/ \E d \in Addrs, o \in ObjectIDs, c \in ClientIDs :
       RemoveDeviceClient(d, o, c)

SpecClients == InitIO /\ [][NextClients]_vars

NextIO ==
  \/ \E mallocOK \in BOOLEAN :
       AudioHALDriverFactory(kAudioServerPlugInTypeUUID, mallocOK)
  \/ \E d \in Addrs : Release(d)
  \/ \E d \in Addrs, inHost \in Hosts : Initialize(d, inHost)
  \/ \E d \in Addrs, o \in ObjectIDs, c \in ClientIDs : StartIO(d, o, c)
  \/ \E d \in Addrs, o \in ObjectIDs, c \in ClientIDs : StopIO(d, o, c)
  \/ \E d \in Addrs, o \in ObjectIDs, c \in ClientIDs, k \in OperationIDs :
       WillDoIOOperation(d, o, c, k)
  \/ \E d \in Addrs, o \in ObjectIDs, c \in ClientIDs, k \in OperationIDs,
        f \in 0..MaxFrames, mainBuf \in BOOLEAN :
       DoIOOperation(d, o, c, k, f, mainBuf)

SpecIO == InitIO /\ [][NextIO]_vars

\* ------------------------------------------------------------------ claims

Live == {a \in Addrs : heap[a].st = "live"}
Quiescent == \A t \in Threads : pc[t] = "idle"

\* C1: a block in use has exactly as many counted references as the host has
\* acquired and not released, at least one; a block is freed exactly once, by
\* the Release that takes the count from 1 to 0 (which also unregisters the
\* factory instance and clears gDriver), and then no reference is left; a
\* Release that returns nonzero frees nothing.
C1_DestroyedExactlyOnceAtZero ==
  /\ \A a \in Addrs :
       /\ heap[a].st = "live" =>
            /\ heap[a].refCount = held[a]
            /\ held[a] >= 1
            /\ nFree[a] = 0
            /\ gDriver = a
       /\ heap[a].st = "freed" => held[a] = 0 /\ nFree[a] = 1
  /\ factoryInstances = Cardinality(Live)
  /\ call.op = "Release" =>
       IF call.out.ret # 0
       THEN /\ heap[call.driver].st = "live"
            /\ call.out.ret = call.pre.block.refCount - 1
            /\ gDriver = call.driver
            /\ factoryInstances = call.pre.instances
       ELSE /\ call.pre.block.refCount = 1
            /\ heap[call.driver].st = "freed"
            /\ gDriver = NULL
            /\ factoryInstances = call.pre.instances - 1

\* C1 witness: after an AddRef-raised count has been released down, the last
\* Release has returned 0 and freed the block.
C1_Witness ==
  /\ call.op = "Release" /\ call.out.ret = 0
  /\ call.pre.block.refCount = 1
  /\ heap[call.driver].st = "freed" /\ nFree[call.driver] = 1
  /\ gDriver = NULL /\ factoryInstances = 0

\* What a factory call that creates nothing and changes nothing leaves behind.
FactoryNoOp ==
  /\ call.out.ret = NULL
  /\ gDriver = call.pre.gDriver
  /\ factoryInstances = call.pre.instances
  /\ gDriver # NULL => heap[gDriver] = call.pre.block
  /\ gDriver = NULL => Live = {}

\* What a factory call made while an instance exists does: nothing allocated,
\* that instance returned, its count one higher.
FactoryReuses ==
  /\ call.out.ret = call.pre.gDriver
  /\ gDriver = call.pre.gDriver
  /\ factoryInstances = call.pre.instances
  /\ heap[gDriver] = [call.pre.block EXCEPT !.refCount = @ + 1]

\* What a factory call that creates the instance leaves behind.
FactoryCreates ==
  /\ call.out.ret # NULL
  /\ gDriver = call.out.ret
  /\ heap[gDriver].st = "live"
  /\ heap[gDriver].refCount = 1
  /\ factoryInstances = 1

\* C2 as stated: at most one instance exists; a factory call with the plug-in
\* type ID returns the existing instance with its count raised by 1, or, when
\* none exists, creates one with count 1; with any other type ID it returns
\* null and changes nothing.
C2_FactoryAlwaysCreates ==
  /\ Cardinality(Live) <= 1
  /\ call.op = "AudioHALDriverFactory" =>
       IF call.arg.typeID # kAudioServerPlugInTypeUUID THEN FactoryNoOp
       ELSE IF call.pre.gDriver # NULL THEN FactoryReuses
       ELSE FactoryCreates

\* C2 amended: as C2, except that a factory call made while no instance exists
\* creates one with count 1 only if its allocation succeeds; if the allocation
\* fails it returns null and changes nothing.
C2_FactoryCreatesUnlessMallocFails ==
  /\ Cardinality(Live) <= 1
  /\ call.op = "AudioHALDriverFactory" =>
       IF call.arg.typeID # kAudioServerPlugInTypeUUID THEN FactoryNoOp
       ELSE IF call.pre.gDriver # NULL THEN FactoryReuses
       ELSE IF call.arg.mallocOK THEN FactoryCreates
       ELSE FactoryNoOp

\* C2 witness: a factory call with the plug-in type ID found the instance and
\* returned it with count 2.
C2_Witness ==
  /\ call.op = "AudioHALDriverFactory"
  /\ call.arg.typeID = kAudioServerPlugInTypeUUID
  /\ call.pre.gDriver # NULL
  /\ call.out.ret = call.pre.gDriver
  /\ call.pre.block.refCount = 1
  /\ heap[gDriver].refCount = 2

\* C3: QueryInterface succeeds, returns inDriver and raises its count by 1
\* exactly for the driver interface ID and the IUnknown ID; for any other ID it
\* returns E_NOINTERFACE and leaves *outInterface and the driver as they were.
C3_QueryInterfaceOnlyForKnownIDs ==
  call.op = "QueryInterface" =>
    IF call.arg.uuid \in {kAudioServerPlugInDriverInterfaceUUID, IUnknownUUID}
    THEN /\ call.status = S_OK
         /\ call.out.outInterface = call.driver
         /\ heap[call.driver] = [call.pre.block EXCEPT !.refCount = @ + 1]
    ELSE /\ call.status = E_NOINTERFACE
         /\ call.out.outInterface = call.arg.prior
         /\ heap[call.driver] = call.pre.block
         /\ gDriver = call.pre.gDriver
         /\ factoryInstances = call.pre.instances
         /\ initOK[call.driver] = call.pre.initOK

\* C3 witness: QueryInterface for IUnknown has returned the singleton and taken
\* its count from 1 to 2.
C3_Witness ==
  /\ call.op = "QueryInterface" /\ call.arg.uuid = IUnknownUUID
  /\ call.status = S_OK /\ call.out.outInterface = gDriver
  /\ call.pre.block.refCount = 1 /\ heap[gDriver].refCount = 2

\* C4 as stated: once the concurrent AddRef and Release calls have all returned,
\* the count of a block in use is the number of references acquired and not
\* released (no update lost), and a block has been freed only if that number
\* is 0.
C4_NoLostUpdate ==
  Quiescent =>
    \A a \in Addrs :
      /\ heap[a].st = "live" => heap[a].refCount = held[a]
      /\ heap[a].st = "freed" => held[a] = 0

\* C5 as stated: a factory or QueryInterface call never increments the count
\* of, nor returns, a block that has been freed.
C5_NoAcquireOfFreed ==
  \A t \in Threads :
    /\ (pc[t] \in {"a_load", "a_store"} /\ loc[t].cont \in {"f_ret", "q_ret"}
          /\ loc[t].driver # NULL)
         => heap[loc[t].driver].st # "freed"
    /\ (pc[t] = "q_ret") => heap[loc[t].driver].st # "freed"

\* C6 as stated: GetPropertyData on a supported selector, in any scope, with a
\* buffer of exactly the size GetPropertyDataSize reports succeeds and reports
\* that size as written.
C6_SizeThenDataAgree ==
  (/\ call.op = "GetPropertyData"
   /\ call.arg.selector \in SupportedSelectors
   /\ call.arg.inDataSize = PropertyDataSize(call.arg.selector))
  => /\ call.status = kAudioHardwareNoError
     /\ call.out.outDataSize = PropertyDataSize(call.arg.selector)

\* C7 as stated: GetPropertyData on a supported selector fails and stores
\* nothing when the buffer is smaller than the size of the value; otherwise it
\* stores the value and reports the number of bytes stored.
C7_SmallBufferFails ==
  (call.op = "GetPropertyData" /\ call.arg.selector \in SupportedSelectors)
  => IF call.arg.inDataSize < PropertyDataSize(call.arg.selector)
     THEN call.status # kAudioHardwareNoError /\ call.out.written = 0
     ELSE /\ call.status = kAudioHardwareNoError
          /\ call.out.outDataSize = call.out.written

\* The entry points that take an object identifier and return an OSStatus.
ObjectOps ==
  {"DestroyDevice", "AddDeviceClient", "RemoveDeviceClient",
   "PerformDeviceConfigurationChange", "AbortDeviceConfigurationChange",
   "IsPropertySettable", "GetPropertyDataSize", "GetPropertyData",
   "SetPropertyData", "StartIO", "StopIO", "GetZeroTimeStamp",
   "WillDoIOOperation", "BeginIOOperation", "DoIOOperation", "EndIOOperation"}

\* C8 as stated: an entry point given an object identifier other than the
\* device's returns the unknown-object status (and HasProperty, which returns
\* no status, answers false).
C8_UnknownObjectRejected ==
  /\ (call.op \in ObjectOps /\ call.arg.objectID # PlaceholderDeviceID)
       => call.status = kAudioHardwareBadObjectError
  /\ (call.op = "HasProperty" /\ call.arg.objectID # PlaceholderDeviceID)
       => call.out.ret = FALSE

\* C9: the device object identifier of a driver in use is nonzero only if
\* Initialize has returned success on it, is 0 until then, and is changed by
\* no call other than Initialize.
C9_DeviceIDOnlyAfterInitialize ==
  /\ \A a \in Live :
       /\ heap[a].deviceObjectID # 0 => initOK[a]
       /\ ~initOK[a] => heap[a].deviceObjectID = 0
  /\ (/\ call.op \notin {"none", "Initialize"}
      /\ call.pre.block.st = "live"
      /\ call.driver \in Live)
       => heap[call.driver].deviceObjectID = call.pre.block.deviceObjectID

\* C9 witness: Initialize has returned success on an instance whose identifier
\* was 0, and the identifier is now nonzero.
C9_Witness ==
  /\ call.op = "Initialize" /\ call.status = kAudioHardwareNoError
  /\ call.pre.block.deviceObjectID = 0 /\ ~call.pre.initOK
  /\ heap[call.driver].deviceObjectID # 0 /\ initOK[call.driver]

\* C10 as stated: Initialize on an instance that is already Initialized returns
\* an error and leaves the host handle and the device identifier as they were.
C10_SecondInitializeRejected ==
  (call.op = "Initialize" /\ call.pre.initOK)
  => /\ call.status # kAudioHardwareNoError
     /\ heap[call.driver].host = call.pre.block.host
     /\ heap[call.driver].deviceObjectID = call.pre.block.deviceObjectID

\* C11 as stated: once Initialize has returned success on an instance its host
\* handle is non-null, a later Initialize leaves the handle the first one bound,
\* and an Initialize given a null host handle does not return success.
C11_HostSetOnceNeverNull ==
  /\ \A a \in Live : initOK[a] => heap[a].host # NULL
  /\ (call.op = "Initialize" /\ call.pre.initOK)
       => heap[call.driver].host = call.pre.block.host
  /\ (call.op = "Initialize" /\ call.arg.inHost = NULL)
       => call.status # kAudioHardwareNoError

PropertyQueries ==
  {"HasProperty", "IsPropertySettable", "GetPropertyDataSize", "GetPropertyData"}

\* C12: a HasProperty, IsPropertySettable, GetPropertyDataSize or
\* GetPropertyData call, whatever its object ID, selector, scope and buffer
\* capacity, leaves the driver as it found it: the reference count, host
\* handle, device object identifier and channel counts of the instance, the
\* singleton pointer and the factory's instance count.
C12_PropertyQueriesReadOnly ==
  call.op \in PropertyQueries =>
    /\ heap[call.driver] = call.pre.block
    /\ heap[call.driver].refCount = call.pre.block.refCount
    /\ heap[call.driver].host = call.pre.block.host
    /\ heap[call.driver].deviceObjectID = call.pre.block.deviceObjectID
    /\ heap[call.driver].inputChannels = call.pre.block.inputChannels
    /\ heap[call.driver].outputChannels = call.pre.block.outputChannels
    /\ gDriver = call.pre.gDriver
    /\ factoryInstances = call.pre.instances
    /\ initOK[call.driver] = call.pre.initOK

\* C12 witness: GetPropertyData has stored the stream configuration of an
\* initialised instance with a host and more than one reference.
C12_Witness ==
  /\ call.op = "GetPropertyData"
  /\ call.arg.selector = kAudioDevicePropertyStreamConfiguration
  /\ call.out.written > 0
  /\ call.pre.initOK /\ call.pre.block.host # NULL
  /\ call.pre.block.refCount > 1
  /\ heap[call.driver] = call.pre.block

\* C13: HasProperty answers for every selector, true exactly for the name,
\* manufacturer, device UID, streams, stream configuration, nominal sample rate
\* and available nominal sample rates, false for any other; IsPropertySettable
\* reports false (with success) for every selector.
C13_HasPropertyExactlySupported ==
  /\ \A sel \in Selectors :
       /\ HasPropertyResult(sel) \in BOOLEAN
       /\ HasPropertyResult(sel) <=> sel \in SupportedSelectors
  /\ call.op = "HasProperty" =>
       (call.out.ret <=> call.arg.selector \in SupportedSelectors)
  /\ call.op = "IsPropertySettable" =>
       /\ call.out.outIsSettable = FALSE
       /\ call.status = kAudioHardwareNoError

\* C13 witness: HasProperty has answered false for a selector outside the
\* supported set.
C13_Witness ==
  /\ call.op = "HasProperty"
  /\ call.arg.selector \notin SupportedSelectors
  /\ call.out.ret = FALSE

\* C14: SetPropertyData returns the unsupported-operation status for every
\* object ID, selector and scope and leaves the driver as it found it, so that
\* GetPropertyData stores the same size and value for every property and
\* buffer capacity after the call as it would have before.
C14_SetPropertyDataRefused ==
  call.op = "SetPropertyData" =>
    /\ call.status = kAudioHardwareUnsupportedOperationError
    /\ heap[call.driver] = call.pre.block
    /\ gDriver = call.pre.gDriver
    /\ factoryInstances = call.pre.instances
    /\ initOK[call.driver] = call.pre.initOK
    /\ \A sel \in Selectors, sc \in Scopes, n \in DataSizes, prior \in PriorSizes :
         PropertyData(heap[call.driver], sel, sc, n, prior)
           = PropertyData(call.pre.block, sel, sc, n, prior)

\* C14 witness: SetPropertyData of the nominal sample rate has been refused on
\* an initialised instance.
C14_Witness ==
  /\ call.op = "SetPropertyData"
  /\ call.arg.selector = kAudioDevicePropertyNominalSampleRate
  /\ call.status = kAudioHardwareUnsupportedOperationError
  /\ call.pre.initOK
  /\ heap[call.driver] = call.pre.block

\* The stream-configuration size the specification gives for k channels.
ChannelBufferListSize(k) ==
  IF k = 0 THEN SizeofAudioBufferList
  ELSE SizeofAudioBufferList + (k - 1) * SizeofAudioBuffer

\* C15 as stated: with k the driver's current channel count for the requested
\* scope (0 for a scope with no channels), GetPropertyDataSize reports, and
\* GetPropertyData given room for it reports, the buffer-list header plus k - 1
\* buffer entries, and the header alone for k = 0.
C15_StreamConfigurationSizeFromChannels ==
  /\ (/\ call.op = "GetPropertyDataSize"
      /\ call.arg.selector = kAudioDevicePropertyStreamConfiguration)
       => call.out.outDataSize
            = ChannelBufferListSize(NumChannels(call.pre.block, call.arg.scope))
  /\ (/\ call.op = "GetPropertyData"
      /\ call.arg.selector = kAudioDevicePropertyStreamConfiguration
      /\ call.arg.inDataSize
           >= ChannelBufferListSize(NumChannels(call.pre.block, call.arg.scope)))
       => call.out.outDataSize
            = ChannelBufferListSize(NumChannels(call.pre.block, call.arg.scope))

\* C16 as stated: a DoIOOperation made for a (device, client) pair that is
\* Stopped (StartIO was never called for it on this instance, or StopIO was
\* called for it since) stores nothing into the host's buffers.
C16_NoTransferWhileStopped ==
  (call.op = "DoIOOperation" /\ ClientOf(call) \notin io.started)
  => /\ call.out.mainZeroed = 0
     /\ ~call.out.secondaryTouched

\* The device's channel count for the direction of IO operation opID.
DirectionChannels(blk, opID) ==
  IF opID = kAudioServerPlugInIOOperationReadInput THEN blk.inputChannels
  ELSE blk.outputChannels

\* C17: DoIOOperation with f frames and a non-null main buffer zero-fills the
\* first f * c * 4 bytes of the main buffer and no other, c being the device's
\* channel count for the operation's direction; with a null main buffer it
\* stores nothing; it never touches the secondary buffer and keeps nothing of
\* the call in the driver.
C17_ZeroFillsExactExtent ==
  call.op = "DoIOOperation" =>
    /\ call.arg.mainBuf =>
         call.out.mainZeroed
           = call.arg.frames
               * DirectionChannels(call.pre.block, call.arg.opID) * SizeofFloat
    /\ ~call.arg.mainBuf => call.out.mainZeroed = 0
    /\ ~call.out.secondaryTouched
    /\ call.status = kAudioHardwareNoError
    /\ heap[call.driver] = call.pre.block

\* C17 witness: an input-side DoIOOperation with at least one frame has
\* zero-filled a non-empty extent of a non-null main buffer.
C17_Witness ==
  /\ call.op = "DoIOOperation"
  /\ call.arg.opID = kAudioServerPlugInIOOperationReadInput
  /\ call.arg.mainBuf /\ call.arg.frames >= 1
  /\ call.out.mainZeroed = call.arg.frames * InitialInputChannels * SizeofFloat
  /\ call.out.mainZeroed > 0

\* The last call was an AddDeviceClient for a pair already added, or a
\* RemoveDeviceClient for a pair not added (never, or removed since).
ClientMisuse ==
  \/ call.op = "AddDeviceClient" /\ io.wasClient
  \/ call.op = "RemoveDeviceClient" /\ ~io.wasClient

\* C18: a duplicate AddDeviceClient, a RemoveDeviceClient for a client already
\* removed and a RemoveDeviceClient for a client never added each return
\* success and change nothing: not the driver (instance, reference count,
\* singleton pointer, factory registration), not the set of registered clients,
\* and so not the registration of any other client.
C18_ClientMisuseIsNoOp ==
  [][ClientMisuse' =>
       /\ call'.status = kAudioHardwareNoError
       /\ UNCHANGED driverVars
       /\ io'.clients = io.clients
       /\ io'.started = io.started]_vars

\* C18 witness: RemoveDeviceClient has returned success for a pair that was not
\* added, on an initialised instance, while another client is registered.
C18_Witness ==
  /\ call.op = "RemoveDeviceClient" /\ ~io.wasClient
  /\ call.status = kAudioHardwareNoError
  /\ call.pre.initOK
  /\ io.clients # {}
  /\ heap[call.driver] = call.pre.block

\* C19 as stated: the (willDo, willDoInPlace) pair WillDoIOOperation stores
\* depends on the operation ID alone, and DoIOOperation stores into the host's
\* buffers for an operation ID only if WillDoIOOperation declares willDo for it.
C19_DoesOnlyWhatItDeclares ==
  /\ call.op = "WillDoIOOperation" =>
       /\ call.out = WillDoResult(call.arg.opID)
       /\ call.status = kAudioHardwareNoError
  /\ (call.op = "DoIOOperation" /\ call.out.mainZeroed > 0)
       => WillDoResult(call.arg.opID).outWillDo

====
